---- MODULE Spec2Model ----
(***************************************************************************)
(* Model of json_parser.py: the merge of metadata.json descriptors into    *)
(* the driving-models manifest.                                            *)
(*                                                                         *)
(* Text is a sequence of one-character strings (short names, file names,   *)
(* folders, URLs) or a sequence of words (display names), so that upper(), *)
(* lower(), startswith(), split(), the regular expressions and quote() are *)
(* computed as the code computes them.                                     *)
(***************************************************************************)
EXTENDS Integers, Sequences, FiniteSets, TLC

\* ------------------------------------------------------------------ bounds
MaxBundles == 2   \* bundles in the manifest that is loaded
MaxDescs == 2     \* metadata.json files found under --recompiled-dir

\* -------------------------------------------------------------------- text
\* the letters that the sample texts use
LowerLetters == <<"a", "b", "e", "f", "g", "h", "i", "k", "m", "n", "r", "v", "x">>
UpperLetters == <<"A", "B", "E", "F", "G", "H", "I", "K", "M", "N", "R", "V", "X">>

Range(s) == {s[i] : i \in DOMAIN s}

\* str.upper() / str.lower(), one character
ToUpper(c) ==
  IF \E k \in DOMAIN LowerLetters : LowerLetters[k] = c
  THEN UpperLetters[CHOOSE k \in DOMAIN LowerLetters : LowerLetters[k] = c]
  ELSE c

ToLower(c) ==
  IF \E k \in DOMAIN UpperLetters : UpperLetters[k] = c
  THEN LowerLetters[CHOOSE k \in DOMAIN UpperLetters : UpperLetters[k] = c]
  ELSE c

Upper(s) == [i \in 1..Len(s) |-> ToUpper(s[i])]
Lower(s) == [i \in 1..Len(s) |-> ToLower(s[i])]

\* [A-Za-z]
IsAlpha(c) == c \in Range(LowerLetters) \cup Range(UpperLetters)

\* str.startswith
StartsWith(s, p) == Len(p) <= Len(s) /\ SubSeq(s, 1, Len(p)) = p

\* "big" in s.lower()
ContainsBig(s) ==
  \E i \in 1..(Len(s) - 2) : SubSeq(Lower(s), i, i + 2) = <<"b", "i", "g">>

\* the words of s.split(): maximal runs of non-blank characters
RECURSIVE Split(_)
Split(s) ==
  IF s = <<>> THEN <<>>
  ELSE IF s[1] = " " THEN Split(Tail(s))
  ELSE LET n == CHOOSE k \in 1..Len(s) :
                  /\ \A j \in 1..k : s[j] # " "
                  /\ (k = Len(s) \/ s[k + 1] = " ")
       IN <<SubSeq(s, 1, n)>> \o Split(SubSeq(s, n + 1, Len(s)))

\* urllib.parse.quote: letters, digits and "_.-~/" are kept, a blank is "%20"
RECURSIVE quote(_)
quote(s) ==
  IF s = <<>> THEN <<>>
  ELSE (IF s[1] = " " THEN <<"%", "2", "0">> ELSE <<s[1]>>) \o quote(Tail(s))

\* ------------------------------------------------------------ URL builder
BaseUrl == "https://raw.githubusercontent.com/hoofpilot/models/master/recompiled/"

make_model_url(recompiled_dir, folder, file_name) ==
  <<BaseUrl>> \o recompiled_dir \o <<"/">> \o quote(folder) \o <<"/">> \o quote(file_name)

\* ------------------------------------------------------------------ models
Model(type, afn, asha, aurl, mfn, msha, murl) ==
  [type |-> type,
   artifact |-> [file_name |-> afn, download_uri |-> [sha256 |-> asha, url |-> aurl]],
   metadata |-> [file_name |-> mfn, download_uri |-> [sha256 |-> msha, url |-> murl]]]

IsBig(m) == ContainsBig(m.artifact.file_name) \/ ContainsBig(m.metadata.file_name)

\* faulty variant: the filter looks at the artifact's file name only
FilterBigArtifactOnly(models) ==
  SelectSeq(models, LAMBDA m : ~ContainsBig(m.artifact.file_name))

\* the list comprehension of lines 21-25 and 109-113
FilterBig(models) == SelectSeq(models, LAMBDA m : ~IsBig(m))

\* faulty variant: the last candidate of the type is taken
LastOfType(models, type) ==
  IF \E i \in DOMAIN models : models[i].type = type
  THEN CHOOSE i \in DOMAIN models :
         /\ models[i].type = type
         /\ \A j \in (i + 1)..Len(models) : models[j].type # type
  ELSE 0

\* next((m for m in filtered if m["type"] == type), None): its position, 0 for None
FirstOfType(models, type) ==
  IF \E i \in DOMAIN models : models[i].type = type
  THEN CHOOSE i \in DOMAIN models :
         /\ models[i].type = type
         /\ \A j \in 1..(i - 1) : models[j].type # type
  ELSE 0

\* faulty variant: the URLs are built from the file names the model had
UpdateModelOldUrl(model, filtered_meta_models, folder, recompiled_dir) ==
  LET k == FirstOfType(filtered_meta_models, model.type)
      meta_model == filtered_meta_models[k]
  IN IF k = 0 THEN model
     ELSE [model EXCEPT
             !.artifact.file_name = meta_model.artifact.file_name,
             !.artifact.download_uri.sha256 = meta_model.artifact.download_uri.sha256,
             !.artifact.download_uri.url =
                make_model_url(recompiled_dir, folder, model.artifact.file_name),
             !.metadata.file_name = meta_model.metadata.file_name,
             !.metadata.download_uri.sha256 = meta_model.metadata.download_uri.sha256,
             !.metadata.download_uri.url =
                make_model_url(recompiled_dir, folder, model.metadata.file_name)]

\* One model of the bundle after the loop body of lines 27-35. In a bundle made in
\* this run the bundle's models are the descriptor's own objects; the candidate
\* found for a model is then either the model itself or an earlier model that
\* the loop has already rewritten from itself, whose type, file names and sha256
\* are what the descriptor gave, so reading the candidates from the descriptor
\* gives the same values.
UpdateModel(model, filtered_meta_models, folder, recompiled_dir) ==
  LET k == FirstOfType(filtered_meta_models, model.type)
      meta_model == filtered_meta_models[k]
  IN IF k = 0 THEN model
     ELSE [model EXCEPT
             !.artifact.file_name = meta_model.artifact.file_name,
             !.artifact.download_uri.sha256 = meta_model.artifact.download_uri.sha256,
             !.artifact.download_uri.url =
                make_model_url(recompiled_dir, folder, meta_model.artifact.file_name),
             !.metadata.file_name = meta_model.metadata.file_name,
             !.metadata.download_uri.sha256 = meta_model.metadata.download_uri.sha256,
             !.metadata.download_uri.url =
                make_model_url(recompiled_dir, folder, meta_model.metadata.file_name)]

update_bundle_models(bundle, meta_models, folder, recompiled_dir) ==
  LET filtered_meta_models == FilterBig(meta_models)
  IN [bundle EXCEPT !.models =
        [i \in DOMAIN @ |-> UpdateModel(@[i], filtered_meta_models, folder, recompiled_dir)]]

\* ------------------------------------------------------- bundles and index
\* A field the JSON object does not have
Absent == "<absent>"
\* JSON null / Python None
Null == "<null>"

\* "index" of a bundle: an integer, some other JSON value (a string), or no key
IntIndex(n) == [k |-> "int", v |-> n]
StrIndex(n) == [k |-> "str", v |-> n]
NoIndex == [k |-> "none", v |-> 0]

\* bundle.get("index", 0)
IndexGet(bundle) == IF bundle.index.k = "none" THEN IntIndex(0) ELSE bundle.index

SetMax(S) == CHOOSE x \in S : \A y \in S : y <= x

\* faulty variant: the number of bundles gives the index
NewIndexByCount(bundles) == Len(bundles) + 1

\* line 104: max([... if isinstance(..., int)], default=0) + 1
NewIndex(bundles) ==
  LET ints == {IndexGet(bundles[i]).v : i \in {j \in DOMAIN bundles : IndexGet(bundles[j]).k = "int"}}
  IN (IF ints = {} THEN 0 ELSE SetMax(ints)) + 1

\* re.match(r"([A-Za-z]+)", short_name): the leading letters, or the whole name
LeadingAlpha(s) ==
  LET n == CHOOSE k \in 0..Len(s) :
             /\ \A j \in 1..k : IsAlpha(s[j])
             /\ (k = Len(s) \/ ~IsAlpha(s[k + 1]))
  IN SubSeq(s, 1, n)

Prefix(short_name) ==
  IF LeadingAlpha(short_name) # <<>> THEN LeadingAlpha(short_name) ELSE short_name

\* line 50
Candidates(short_name, bundles) ==
  SelectSeq(bundles, LAMBDA b :
    /\ StartsWith(b.short_name, Prefix(short_name))
    /\ b.generation # Absent
    /\ b.minimum_selector_version # Absent)

\* max() of line 52 compares an integer index with a string index: TypeError
MaxRaises(short_name, bundles) ==
  LET c == Candidates(short_name, bundles)
  IN \E i, j \in DOMAIN c : IndexGet(c[i]).k # IndexGet(c[j]).k

\* faulty variant: min() in place of max()
Earliest(candidates) ==
  candidates[CHOOSE i \in DOMAIN candidates :
    /\ \A j \in DOMAIN candidates : IndexGet(candidates[j]).v >= IndexGet(candidates[i]).v
    /\ \A j \in 1..(i - 1) : IndexGet(candidates[j]).v > IndexGet(candidates[i]).v]

\* max(candidates, key=...): the first candidate no other one exceeds
Latest(candidates) ==
  candidates[CHOOSE i \in DOMAIN candidates :
    /\ \A j \in DOMAIN candidates : IndexGet(candidates[j]).v <= IndexGet(candidates[i]).v
    /\ \A j \in 1..(i - 1) : IndexGet(candidates[j]).v < IndexGet(candidates[i]).v]

get_generation_and_selector(short_name, bundles) ==
  LET candidates == Candidates(short_name, bundles)
  IN IF candidates # <<>>
     THEN <<Latest(candidates).generation, Latest(candidates).minimum_selector_version>>
     ELSE <<"12", "12">>

\* ------------------------------------------------------------------- dates
\* A display name is a sequence of words; "(" and ")" are words of their own.
\* re.search(r'\(([^)]+)\)', display_name): the leftmost "(" whose next ")" is
\* not right behind it; the group is what lies between the two.
NextClose(s, i) ==
  IF \E j \in (i + 1)..Len(s) : s[j] = ")"
  THEN CHOOSE j \in (i + 1)..Len(s) : s[j] = ")" /\ \A h \in (i + 1)..(j - 1) : s[h] # ")"
  ELSE 0

GroupAt(s, i) == s[i] = "(" /\ NextClose(s, i) > i + 1

\* faulty variant: the last group is taken
ExtractLastGroup(display_name) ==
  IF \E i \in DOMAIN display_name : GroupAt(display_name, i)
  THEN LET i == CHOOSE h \in DOMAIN display_name :
                  /\ GroupAt(display_name, h)
                  /\ \A g \in (h + 1)..Len(display_name) : ~GroupAt(display_name, g)
       IN SubSeq(display_name, i + 1, NextClose(display_name, i) - 1)
  ELSE <<>>

extract_date_from_display_name(display_name) ==
  IF \E i \in DOMAIN display_name : GroupAt(display_name, i)
  THEN LET i == CHOOSE h \in DOMAIN display_name :
                  /\ GroupAt(display_name, h)
                  /\ \A g \in 1..(h - 1) : ~GroupAt(display_name, g)
       IN SubSeq(display_name, i + 1, NextClose(display_name, i) - 1)
  ELSE <<>>

Months == <<"January", "February", "March", "April", "May", "June", "July",
            "August", "September", "October", "November", "December">>
DaysIn == <<31, 28, 31, 30, 31, 30, 31, 31, 30, 31, 30, 31>>
DayWords == <<"1,", "4,", "31,">>
DayNumbers == <<1, 4, 31>>
YearWords == <<"0001", "2023", "2024">>
YearNumbers == <<1, 2023, 2024>>

IndexOf(seq, x) == IF \E i \in DOMAIN seq : seq[i] = x
                   THEN CHOOSE i \in DOMAIN seq : seq[i] = x ELSE 0

\* A date as the number yyyymmdd; datetime.min is 0001-01-01
DateValue(y, m, d) == y * 10000 + m * 100 + d
DatetimeMin == DateValue(1, 1, 1)

\* strptime(date_str, "%B %d, %Y") does not raise: a month name, a day of that
\* month with its comma, a year of four digits
ValidDate(date_str) ==
  /\ Len(date_str) = 3
  /\ IndexOf(Months, date_str[1]) # 0
  /\ IndexOf(DayWords, date_str[2]) # 0
  /\ IndexOf(YearWords, date_str[3]) # 0
  /\ DayNumbers[IndexOf(DayWords, date_str[2])] <= DaysIn[IndexOf(Months, date_str[1])]

\* strptime(date_str, "%B %d, %Y"), datetime.min when it raises
parse_date(date_str) ==
  IF ValidDate(date_str)
  THEN DateValue(YearNumbers[IndexOf(YearWords, date_str[3])],
                 IndexOf(Months, date_str[1]),
                 DayNumbers[IndexOf(DayWords, date_str[2])])
  ELSE DatetimeMin

bundle_sort_key(bundle) == parse_date(extract_date_from_display_name(bundle.display_name))

\* faulty variant: a bundle goes ahead of the bundles with its date
RECURSIVE InsertAheadOfEqual(_, _)
InsertAheadOfEqual(sorted, b) ==
  IF sorted = <<>> THEN <<b>>
  ELSE IF bundle_sort_key(b) <= bundle_sort_key(sorted[Len(sorted)])
       THEN Append(InsertAheadOfEqual(SubSeq(sorted, 1, Len(sorted) - 1), b), sorted[Len(sorted)])
       ELSE Append(sorted, b)

\* list.sort(key=bundle_sort_key): stable, ascending
RECURSIVE InsertByKey(_, _)
InsertByKey(sorted, b) ==
  IF sorted = <<>> THEN <<b>>
  ELSE IF bundle_sort_key(b) < bundle_sort_key(sorted[Len(sorted)])
       THEN Append(InsertByKey(SubSeq(sorted, 1, Len(sorted) - 1), b), sorted[Len(sorted)])
       ELSE Append(sorted, b)

RECURSIVE SortBundles(_)
SortBundles(bundles) ==
  IF bundles = <<>> THEN <<>>
  ELSE InsertByKey(SortBundles(SubSeq(bundles, 1, Len(bundles) - 1)), bundles[Len(bundles)])

\* lines 149-150
Reindex(bundles) == [i \in DOMAIN bundles |-> [bundles[i] EXCEPT !.index = IntIndex(i - 1)]]

\* ----------------------------------------------------------------- samples
\* Short names and folders
RAV1 == <<"R", "A", "V", "1">>
rav1 == <<"r", "a", "v", "1">>
rav2 == <<"r", "a", "v", "2">>
rav3 == <<"r", "a", "v", "3">>
rav_9 == <<"r", "a", "v", " ", "9">>
RAV9 == <<"R", "A", "V", "9">>
RAV7 == <<"R", "A", "V", "7">>
RAV6 == <<"R", "A", "V", "6">>
RAVEN1 == <<"R", "A", "V", "E", "N", "1">>
\* Display names
June1 == <<"(", "June", "1,", "2024", ")">>
May1 == <<"(", "May", "1,", "2024", ")">>
July4 == <<"(", "July", "4,", "2023", ")">>
June31 == <<"(", "June", "31,", "2024", ")">>
Beta == <<"(", "beta", ")">>
Jan1Year1 == <<"(", "January", "1,", "0001", ")">>

OldUrl == <<"https://old/">>
RecompiledDir == <<"recompiled3">>
DefaultOverrides == [folder |-> <<"O">>, lat |-> ".1", long |-> ".2"]

Bundle(ref, short_name, display_name, index, generation, version, build_time, models) ==
  [short_name |-> short_name, display_name |-> display_name, is_20hz |-> FALSE,
   ref |-> ref, environment |-> "release", runner |-> "tinygrad", index |-> index,
   minimum_selector_version |-> version, generation |-> generation,
   build_time |-> build_time, overrides |-> DefaultOverrides, models |-> models]

OldA == Model("a", <<"a", "0">>, "sa0", OldUrl, <<"m", "0">>, "sm0", OldUrl)
OldB == Model("b", <<"b", "0">>, "sb0", OldUrl, <<"n", "0">>, "sn0", OldUrl)
OldBigA == Model("a", <<"B", "I", "G", "0">>, "sA0", OldUrl, <<"m", "0">>, "sM0", OldUrl)

\* Bundles of the manifest on disk
Br1 == Bundle("r1", RAV1, <<"A">> \o June1, IntIndex(5), "11", "11", "t0", <<OldA, OldB>>)
Br2 == Bundle("r2", rav2, <<"B">> \o Beta \o May1, IntIndex(2), "10", "10", Absent, <<OldBigA>>)
Br3 == Bundle("r3", RAVEN1, <<"C">> \o June1, IntIndex(5), "13", "13", "t0", <<OldB, OldA>>)
Br4 == Bundle("r4", RAV9, <<"D">>, NoIndex, Absent, "9", Null, <<>>)
Br5 == Bundle("r5", RAV7, <<"E">> \o June31, StrIndex(1), "14", "14", "t0", <<OldA>>)
Br6 == Bundle("r6", RAV6, <<"F">> \o Jan1Year1, IntIndex(-3), "9", "9", "t0", <<>>)

SampleBundles == {Br1, Br2, Br3, Br4, Br5, Br6}

NewA1 == Model("a", <<"a", "1">>, "sa1", OldUrl, <<"m", " ", "1">>, "sm1", OldUrl)
NewA2 == Model("a", <<"a", "2">>, "sa2", OldUrl, <<"m", "2">>, "sm2", OldUrl)
NewB1 == Model("b", <<"b", "1">>, "sb1", OldUrl, <<"n", "1">>, "sn1", OldUrl)
BigA == Model("a", <<"x", "B", "i", "g">>, "sA1", OldUrl, <<"m", "3">>, "sM1", OldUrl)
BigB == Model("b", <<"b", "2">>, "sB1", OldUrl, <<"b", "i", "G", "2">>, "sN1", OldUrl)

AllKeys == {"ref", "short_name", "display_name", "is_20hz", "build_time", "models"}

Descriptor(keys, folder, ref, short_name, display_name, is_20hz, build_time, models) ==
  [keys |-> keys, folder |-> folder, ref |-> ref, short_name |-> short_name,
   display_name |-> display_name, is_20hz |-> is_20hz, build_time |-> build_time,
   models |-> models]

\* Descriptors: an update of r1, two that share the new ref r9, one without "ref",
\* one without "models", a new one whose short name has a blank, an update of r2
Dr1 == Descriptor(AllKeys, <<"f", " ", "1">>, "r1", rav1, <<"A">> \o July4, TRUE, "t1",
                  <<BigA, NewA1, BigB>>)
Dr9a == Descriptor({"ref", "short_name", "models"}, rav3, "r9", rav3, <<>>, FALSE, Absent,
                   <<NewA1, BigB, NewA2>>)
Dr9b == Descriptor({"ref", "display_name", "build_time", "models"}, <<"g">>, "r9", <<>>,
                   <<"Z">> \o May1 \o Beta, FALSE, "t2", <<NewA2, NewB1>>)
DnoRef == Descriptor(AllKeys \ {"ref"}, <<"h">>, Absent, rav1, <<"H">>, TRUE, "t3", <<NewA1>>)
DnoModels == Descriptor(AllKeys \ {"models"}, <<"k">>, "r2", rav2, <<"K">>, TRUE, "t4", <<>>)
Dr8 == Descriptor(AllKeys \ {"display_name"}, <<"v">>, "r8", rav_9, <<>>, TRUE, "t5",
                  <<NewB1, BigA>>)
Dr2 == Descriptor({"ref", "models", "is_20hz"}, <<"b">>, "r2", <<>>, <<>>, TRUE, Absent,
                  <<BigA, NewA2>>)

SampleDescriptors == {Dr1, Dr9a, Dr9b, DnoRef, DnoModels, Dr8, Dr2}

None == "<none>"

Args(sort_by_date, generation, version, set_min_version, model_folder, tinygrad_ref) ==
  [sort_by_date |-> sort_by_date, generation |-> generation, version |-> version,
   set_min_version |-> set_min_version, model_folder |-> model_folder,
   tinygrad_ref |-> tinygrad_ref, lat |-> ".0", long |-> ".3"]

ArgsDefault == Args(FALSE, None, None, None, <<>>, None)
ArgsSort == Args(TRUE, None, None, None, <<>>, None)
ArgsGeneration == Args(FALSE, "15", None, None, <<"F">>, None)
ArgsVersion == Args(FALSE, None, "16", "7", <<>>, "tg")
ArgsAll == Args(TRUE, "15", "16", None, <<"F">>, "tg")
ArgsSortMin == Args(TRUE, None, None, "7", <<>>, None)

SampleArgs == {ArgsDefault, ArgsSort, ArgsGeneration, ArgsVersion, ArgsAll, ArgsSortMin}

SeqsUpTo(S, n) == UNION {[1..k -> S] : k \in 0..n}

\* ------------------------------------------------------------------- state
VARIABLES
  file,                 \* the manifest at --json-path, as it is on disk
  descs,                \* what find_metadata_files yields, in traversal order
  args,                 \* the command line
  driving_models_json,  \* the manifest in memory
  ref_to_bundle,        \* ref -> position of its bundle in driving_models_json.bundles
  next,                 \* position in descs of the descriptor the loop takes next
  pc,                   \* "start", "merge", "write", "done", "error"
  writes,               \* how often this run has written the file
  run,                  \* 1 for the first run, 2 for the run over its result
  loaded,               \* the file as this run loaded it
  created,              \* refs of the bundles this run has appended
  before,               \* driving_models_json.bundles before the latest step
  step,                 \* the latest step: "load", "new", "update", "fail", "post", "write"
  out1                  \* the file as the first run wrote it

vars == <<file, descs, args, driving_models_json, ref_to_bundle, next, pc, writes, run,
          loaded, created, before, step, out1>>

EmptyManifest == [tinygrad_ref |-> None, bundles |-> <<>>]

InitWith(Bundles, Descriptors, Arguments) ==
  /\ file \in {[tinygrad_ref |-> "tg0", bundles |-> b] : b \in SeqsUpTo(Bundles, MaxBundles)}
  /\ descs \in SeqsUpTo(Descriptors, MaxDescs)
  /\ args \in Arguments
  /\ driving_models_json = EmptyManifest
  /\ ref_to_bundle = <<>>
  /\ next = 1
  /\ pc = "start"
  /\ writes = 0
  /\ run = 1
  /\ loaded = EmptyManifest
  /\ created = {}
  /\ before = <<>>
  /\ step = "none"
  /\ out1 = EmptyManifest

Init == InitWith(SampleBundles, SampleDescriptors, SampleArgs)

\* line 92: a later bundle with the same ref replaces an earlier one in the dict
RefMap(bundles) ==
  [r \in {bundles[i].ref : i \in DOMAIN bundles} |->
     CHOOSE i \in DOMAIN bundles :
       bundles[i].ref = r /\ \A j \in (i + 1)..Len(bundles) : bundles[j].ref # r]

\* lines 86-92
Load ==
  /\ pc = "start"
  /\ driving_models_json' =
       IF args.tinygrad_ref # None
       THEN [file EXCEPT !.tinygrad_ref = args.tinygrad_ref] ELSE file
  /\ ref_to_bundle' = RefMap(file.bundles)
  /\ next' = 1
  /\ pc' = "merge"
  /\ loaded' = file
  /\ created' = {}
  /\ before' = file.bundles
  /\ step' = "load"
  /\ UNCHANGED <<file, descs, args, writes, run, out1>>

Has(meta, key) == key \in meta.keys

\* line 99
ShortName(meta) == Upper(IF Has(meta, "short_name") THEN meta.short_name ELSE meta.folder)

\* line 103
FolderKey(meta) ==
  IF args.model_folder # <<>> THEN args.model_folder
  ELSE Upper(Split(ShortName(meta))[1]) \o <<" ", "M", "o", "d", "e", "l", "s">>

\* lines 104-127
NewBundle(meta, bundles) ==
  LET short_name == ShortName(meta)
      fallback == get_generation_and_selector(short_name, bundles)
  IN [short_name |-> short_name,
      display_name |-> IF Has(meta, "display_name") THEN meta.display_name ELSE short_name,
      is_20hz |-> IF Has(meta, "is_20hz") THEN meta.is_20hz ELSE FALSE,
      ref |-> meta.ref,
      environment |-> "development",
      runner |-> "tinygrad",
      index |-> IntIndex(NewIndex(bundles)),
      minimum_selector_version |-> IF args.version # None THEN args.version ELSE fallback[2],
      generation |-> IF args.generation # None THEN args.generation ELSE fallback[1],
      build_time |-> IF Has(meta, "build_time") THEN meta.build_time ELSE Null,
      overrides |-> [folder |-> FolderKey(meta), lat |-> args.lat, long |-> args.long],
      models |-> FilterBig(meta.models)]

\* faulty variant: line 132 is missing
KeepShortName(bundle) == bundle

\* line 132
UpperShortName(bundle) == [bundle EXCEPT !.short_name = Upper(@)]

\* lines 132-136
UpdateBundle(bundle, meta) ==
  LET b == update_bundle_models(UpperShortName(bundle), meta.models, meta.folder, RecompiledDir)
  IN [b EXCEPT
        !.display_name = IF Has(meta, "display_name") THEN meta.display_name ELSE @,
        !.is_20hz = IF Has(meta, "is_20hz") THEN meta.is_20hz ELSE @,
        !.build_time = IF Has(meta, "build_time") THEN meta.build_time
                       ELSE IF @ = Absent THEN Null ELSE @]

\* faulty variant: line 129 is missing, the dict knows the loaded refs only
RefKnownAtLoad(ref, map) == ref \in {loaded.bundles[i].ref : i \in DOMAIN loaded.bundles}

\* line 101
RefKnown(ref, map) == ref \in DOMAIN map

\* faulty variant: meta.get("models", []) in place of meta["models"]
MalformedRefOnly(meta) == ~Has(meta, "ref")

\* KeyError of lines 97, 110 and 133
Malformed(meta) == ~Has(meta, "ref") \/ ~Has(meta, "models")

\* What makes the creation of a bundle raise before line 128 appends it:
\* IndexError of split()[0] (line 103), TypeError of max (line 52)
NewRaises(meta, bundles) ==
  \/ args.model_folder = <<>> /\ Split(ShortName(meta)) = <<>>
  \/ MaxRaises(ShortName(meta), bundles)

Looping == pc = "merge" /\ next <= Len(descs)

\* lines 94-137, the ref is new
ProcessNew ==
  LET meta == descs[next]
      bundles == driving_models_json.bundles
  IN /\ Looping
     /\ ~Malformed(meta)
     /\ ~RefKnown(meta.ref, ref_to_bundle)
     /\ ~NewRaises(meta, bundles)
     /\ driving_models_json' =
          [driving_models_json EXCEPT
             !.bundles = Append(bundles, UpdateBundle(NewBundle(meta, bundles), meta))]
     /\ ref_to_bundle' = [r \in DOMAIN ref_to_bundle \cup {meta.ref} |->
                            IF r = meta.ref THEN Len(bundles) + 1 ELSE ref_to_bundle[r]]
     /\ created' = created \cup {meta.ref}
     /\ next' = next + 1
     /\ before' = bundles
     /\ step' = "new"
     /\ UNCHANGED <<file, descs, args, pc, writes, run, loaded, out1>>

\* lines 94-137, the ref has a bundle
ProcessExisting ==
  LET meta == descs[next]
      bundles == driving_models_json.bundles
  IN /\ Looping
     /\ ~Malformed(meta)
     /\ RefKnown(meta.ref, ref_to_bundle)
     /\ driving_models_json' =
          [driving_models_json EXCEPT
             !.bundles[ref_to_bundle[meta.ref]] = UpdateBundle(@, meta)]
     /\ next' = next + 1
     /\ before' = bundles
     /\ step' = "update"
     /\ UNCHANGED <<file, descs, args, ref_to_bundle, pc, writes, run, loaded, created, out1>>

\* lines 94-137, an uncaught exception ends the run. A descriptor without
\* "models" whose ref has a bundle raises at line 133, after line 132.
ProcessFail ==
  LET meta == descs[next]
      bundles == driving_models_json.bundles
  IN /\ Looping
     /\ \/ Malformed(meta)
        \/ ~RefKnown(meta.ref, ref_to_bundle) /\ NewRaises(meta, bundles)
     /\ driving_models_json' =
          IF Has(meta, "ref") /\ RefKnown(meta.ref, ref_to_bundle)
          THEN [driving_models_json EXCEPT
                  !.bundles[ref_to_bundle[meta.ref]] = UpperShortName(@)]
          ELSE driving_models_json
     /\ pc' = "error"
     /\ before' = bundles
     /\ step' = "fail"
     /\ UNCHANGED <<file, descs, args, ref_to_bundle, next, writes, run, loaded, created, out1>>

\* lines 139-141
SetMinVersion(bundles) ==
  IF args.set_min_version # None
  THEN [i \in DOMAIN bundles |->
          [bundles[i] EXCEPT !.minimum_selector_version = args.set_min_version]]
  ELSE bundles

\* lines 143-150
SortByDate(bundles) == IF args.sort_by_date THEN Reindex(SortBundles(bundles)) ELSE bundles

\* lines 139-150
PostProcess ==
  /\ pc = "merge"
  /\ next > Len(descs)
  /\ driving_models_json' =
       [driving_models_json EXCEPT !.bundles = SortByDate(SetMinVersion(@))]
  /\ pc' = "write"
  /\ before' = driving_models_json.bundles
  /\ step' = "post"
  /\ UNCHANGED <<file, descs, args, ref_to_bundle, next, writes, run, loaded, created, out1>>

\* lines 152-156
Write ==
  /\ pc = "write"
  /\ file' = driving_models_json
  /\ writes' = writes + 1
  /\ pc' = "done"
  /\ out1' = IF run = 1 THEN driving_models_json ELSE out1
  /\ step' = "write"
  /\ UNCHANGED <<descs, args, driving_models_json, ref_to_bundle, next, run, loaded,
                 created, before>>

\* the tool is run again, with the same descriptors and flags, on the file it wrote
RunAgain ==
  /\ pc = "done"
  /\ run = 1
  /\ run' = 2
  /\ pc' = "start"
  /\ writes' = 0
  /\ next' = 1
  /\ created' = {}
  /\ step' = "none"
  /\ UNCHANGED <<file, descs, args, driving_models_json, ref_to_bundle, loaded, before, out1>>

Next == Load \/ ProcessNew \/ ProcessExisting \/ ProcessFail \/ PostProcess \/ Write \/ RunAgain

Spec == Init /\ [][Next]_vars

\* ------------------------------------------------------------------ claims
\* What the claims speak of
Bundles == driving_models_json.bundles
\* the descriptor of the latest loop iteration, and the bundle it went to
LastMeta == descs[next - 1]
Touched == ref_to_bundle[LastMeta.ref]
Merged == step \in {"new", "update"}
Running == pc \in {"merge", "write", "done", "error"}

\* "big" in any letter case, in either file name
HasBig(s) ==
  \E i \in 1..(Len(s) - 2) :
    s[i] \in {"b", "B"} /\ s[i + 1] \in {"i", "I"} /\ s[i + 2] \in {"g", "G"}
NamedBig(m) == HasBig(m.artifact.file_name) \/ HasBig(m.metadata.file_name)
NonBig(models) == SelectSeq(models, LAMBDA m : ~NamedBig(m))

\* model m carries the file names and sha256 of descriptor model c, and the URLs
\* the URL builder gives for c's file names in the descriptor's folder
Carries(m, c, meta) ==
  /\ m.type = c.type
  /\ m.artifact.file_name = c.artifact.file_name
  /\ m.metadata.file_name = c.metadata.file_name
  /\ m.artifact.download_uri.sha256 = c.artifact.download_uri.sha256
  /\ m.metadata.download_uri.sha256 = c.metadata.download_uri.sha256
  /\ m.artifact.download_uri.url =
       make_model_url(RecompiledDir, meta.folder, c.artifact.file_name)
  /\ m.metadata.download_uri.url =
       make_model_url(RecompiledDir, meta.folder, c.metadata.file_name)

\* C1: no model of a bundle created in the run has "big" (any case) in a file
\* name, and every model that a loop iteration changed carries the values of a
\* descriptor model that is not big, and the sha256 of no big descriptor model.
C1_BigNeverMerged ==
  /\ Running =>
       \A i \in DOMAIN Bundles : Bundles[i].ref \in created =>
         \A k \in DOMAIN Bundles[i].models : ~NamedBig(Bundles[i].models[k])
  /\ Merged =>
       \A k \in DOMAIN Bundles[Touched].models :
         LET m == Bundles[Touched].models[k]
         IN \/ step = "update" /\ m = before[Touched].models[k]
            \/ /\ \E j \in DOMAIN LastMeta.models :
                    ~NamedBig(LastMeta.models[j]) /\ Carries(m, LastMeta.models[j], LastMeta)
               /\ \A j \in DOMAIN LastMeta.models :
                    NamedBig(LastMeta.models[j]) =>
                      /\ m.artifact.download_uri.sha256 #
                           LastMeta.models[j].artifact.download_uri.sha256
                      /\ m.metadata.download_uri.sha256 #
                           LastMeta.models[j].metadata.download_uri.sha256

\* C1 witness: after a creation in the run, a descriptor with a big model of type
\* t has updated an existing bundle and changed its model of type t
C1_Witness ==
  /\ step = "update"
  /\ created # {}
  /\ \E k \in DOMAIN Bundles[Touched].models, j \in DOMAIN LastMeta.models :
       /\ NamedBig(LastMeta.models[j])
       /\ LastMeta.models[j].type = Bundles[Touched].models[k].type
       /\ Bundles[Touched].models[k] # before[Touched].models[k]

\* the first model of models that has the type of models[k]
FirstSameType(models, k) ==
  CHOOSE j \in 1..k :
    models[j].type = models[k].type /\ \A h \in 1..(j - 1) : models[h].type # models[k].type

\* C10, as claimed: a bundle just created has the descriptor's non-big models in
\* descriptor order, each with its own file names, sha256 and the URLs of its own
\* file names.
C10_Original ==
  step = "new" =>
    LET own == NonBig(LastMeta.models)
        got == Bundles[Len(Bundles)].models
    IN /\ Len(got) = Len(own)
       /\ \A k \in DOMAIN own : Carries(got[k], own[k], LastMeta)

\* C10, amended: a bundle just created has one model for each non-big model of
\* the descriptor, in descriptor order and with its type; it carries the file
\* names, sha256 and URLs of the first non-big model of that type, which is the
\* model itself when the non-big models have pairwise distinct types.
C10_FirstOfTypeWins ==
  step = "new" =>
    LET own == NonBig(LastMeta.models)
        got == Bundles[Len(Bundles)].models
    IN /\ Len(got) = Len(own)
       /\ \A k \in DOMAIN own : Carries(got[k], own[FirstSameType(own, k)], LastMeta)
       /\ (\A h, k \in DOMAIN own : own[h].type = own[k].type => h = k) =>
            \A k \in DOMAIN own : Carries(got[k], own[k], LastMeta)

\* C10 witness: a bundle was created from a descriptor with a big model and two
\* non-big models of one type
C10_Witness ==
  /\ step = "new"
  /\ \E j \in DOMAIN LastMeta.models : NamedBig(LastMeta.models[j])
  /\ \E h, k \in DOMAIN NonBig(LastMeta.models) :
       h < k /\ NonBig(LastMeta.models)[h].type = NonBig(LastMeta.models)[k].type

\* no lower-case letter
IsUpper(s) == \A i \in DOMAIN s : s[i] \notin Range(LowerLetters)

\* C2, as claimed: after a run that completes, every bundle of the written
\* manifest has an upper-case short_name.
C2_Original ==
  pc = "done" => \A i \in DOMAIN file.bundles : IsUpper(file.bundles[i].short_name)

\* b is a loaded bundle that no descriptor has touched
AsLoaded(b) ==
  \E i \in DOMAIN loaded.bundles :
    LET l == loaded.bundles[i]
    IN /\ b.ref = l.ref /\ b.short_name = l.short_name /\ b.models = l.models
       /\ b.display_name = l.display_name /\ b.is_20hz = l.is_20hz
       /\ b.build_time = l.build_time

\* C2, amended: the bundle a descriptor created or updated has an upper-case
\* short_name; in the written manifest every bundle has an upper-case short_name
\* or is a loaded bundle that no descriptor updated, with the short_name it had.
C2_TouchedUpper ==
  /\ Merged => IsUpper(Bundles[Touched].short_name)
  /\ pc = "done" =>
       \A i \in DOMAIN file.bundles :
         IsUpper(file.bundles[i].short_name) \/ AsLoaded(file.bundles[i])

\* C2 witness: a run that created a bundle, updated a bundle loaded with a
\* lower-case short_name, and left another lower-case one alone
C2_Witness ==
  /\ pc = "done"
  /\ created # {}
  /\ \E i \in DOMAIN file.bundles : ~IsUpper(file.bundles[i].short_name)
  /\ \E i \in DOMAIN file.bundles, j \in DOMAIN loaded.bundles :
       /\ file.bundles[i].ref = loaded.bundles[j].ref
       /\ ~IsUpper(loaded.bundles[j].short_name)
       /\ IsUpper(file.bundles[i].short_name)

UniqueRefs(bundles) ==
  \A i, j \in DOMAIN bundles : bundles[i].ref = bundles[j].ref => i = j

\* C6: when the loaded manifest has one bundle per ref at most, so have the
\* manifest in memory and the file, all along the run; a bundle is created only
\* for a ref that no bundle has, and a descriptor whose ref a bundle of this run
\* has updates that bundle and appends nothing.
C6_RefsStayUnique ==
  /\ (Running /\ UniqueRefs(loaded.bundles)) =>
       UniqueRefs(Bundles) /\ UniqueRefs(file.bundles)
  /\ step = "new" =>
       /\ \A i \in DOMAIN before : before[i].ref # LastMeta.ref
       /\ Len(Bundles) = Len(before) + 1
       /\ Bundles[Len(Bundles)].ref = LastMeta.ref
  /\ step = "update" =>
       /\ Len(Bundles) = Len(before)
       /\ Bundles[Touched].ref = LastMeta.ref
       /\ \A i \in DOMAIN Bundles : i # Touched => Bundles[i] = before[i]

\* C6 witness: the second of two descriptors with one new ref has updated the
\* bundle that the first created, in a manifest loaded with distinct refs
C6_Witness ==
  /\ step = "update"
  /\ LastMeta.ref \in created
  /\ Len(loaded.bundles) >= 2
  /\ UniqueRefs(loaded.bundles)
  /\ Bundles[Touched] # before[Touched]

Incomplete(meta) == "ref" \notin meta.keys \/ "models" \notin meta.keys

\* C7: the loop never gets past a descriptor that lacks "ref" or "models", and in
\* such a run the file is never written and stays as loaded; a failed run has
\* written nothing and takes no further step; a run writes once at most, as its
\* last step after all descriptors, and the file is as loaded until then.
C7_FailureWritesNothing ==
  /\ Running =>
       \A k \in DOMAIN descs : Incomplete(descs[k]) =>
         next <= k /\ pc \in {"merge", "error"} /\ writes = 0 /\ file = loaded
  /\ pc = "error" =>
       /\ writes = 0 /\ file = loaded
       /\ ~ENABLED (ProcessNew \/ ProcessExisting \/ PostProcess \/ Write)
  /\ writes <= 1
  /\ writes = 1 => pc = "done" /\ next = Len(descs) + 1 /\ step = "write"
  /\ (Running /\ pc # "done") => writes = 0 /\ file = loaded

\* C7 witness: the second descriptor lacks "models" and the run has failed there,
\* after the first descriptor changed the manifest in memory
C7_Witness ==
  /\ pc = "error"
  /\ next = 2
  /\ "models" \notin descs[2].keys
  /\ SubSeq(Bundles, 1, Len(loaded.bundles)) # loaded.bundles

\* the bundles before and after post-processing, of a run that sorted
Sorted == pc = "done" /\ args.sort_by_date
\* b is c, but for what post-processing may set
SameBundle(b, c) ==
  [b EXCEPT !.index = NoIndex, !.minimum_selector_version = ""] =
    [c EXCEPT !.index = NoIndex, !.minimum_selector_version = ""]
\* the display name has a group that is a date
HasDate(b) == ValidDate(extract_date_from_display_name(b.display_name))
\* where a stable ascending sort puts element i of bundles
Rank(bundles, i) ==
  Cardinality({j \in DOMAIN bundles : bundle_sort_key(bundles[j]) < bundle_sort_key(bundles[i])})
  + Cardinality({j \in 1..i : bundle_sort_key(bundles[j]) = bundle_sort_key(bundles[i])})

\* C3, as claimed: after a run with --sort-by-date the bundle at position i
\* (from 0) has index i, the bundles are in ascending order of the date parsed
\* from their display_name, those without a parseable date come before every one
\* with a parseable date, and bundles with equal dates keep their order.
C3_Original ==
  Sorted =>
    /\ Len(file.bundles) = Len(before)
    /\ \A i \in DOMAIN file.bundles : file.bundles[i].index = IntIndex(i - 1)
    /\ \A i, j \in DOMAIN file.bundles :
         i < j => bundle_sort_key(file.bundles[i]) <= bundle_sort_key(file.bundles[j])
    /\ \A i, j \in DOMAIN file.bundles :
         (~HasDate(file.bundles[i]) /\ HasDate(file.bundles[j])) => i < j
    /\ \A i \in DOMAIN before : SameBundle(file.bundles[Rank(before, i)], before[i])

\* C3, amended: as claimed, but the bundles without a parseable date come before
\* every bundle whose date is later than January 1, 0001; a bundle of that date
\* has the sort key of the bundles without a date and keeps its place among them.
C3_SortedByDate ==
  Sorted =>
    /\ Len(file.bundles) = Len(before)
    /\ \A i \in DOMAIN file.bundles : file.bundles[i].index = IntIndex(i - 1)
    /\ \A i, j \in DOMAIN file.bundles :
         i < j => bundle_sort_key(file.bundles[i]) <= bundle_sort_key(file.bundles[j])
    /\ \A i, j \in DOMAIN file.bundles :
         (/\ ~HasDate(file.bundles[i])
          /\ HasDate(file.bundles[j])
          /\ bundle_sort_key(file.bundles[j]) > DatetimeMin) => i < j
    /\ \A i \in DOMAIN before :
         ~HasDate(before[i]) => bundle_sort_key(before[i]) = DatetimeMin
    /\ \A i \in DOMAIN before : SameBundle(file.bundles[Rank(before, i)], before[i])

\* C3 witness: a sorted manifest of loaded and created bundles, two of them with
\* one date but different refs, one without a date, and an order that changed
C3_Witness ==
  /\ Sorted
  /\ created # {}
  /\ Len(loaded.bundles) >= 2
  /\ \E i, j \in DOMAIN before :
       /\ i < j /\ bundle_sort_key(before[i]) > DatetimeMin
       /\ bundle_sort_key(before[i]) = bundle_sort_key(before[j])
       /\ before[i].ref # before[j].ref
  /\ \E i \in DOMAIN before : ~HasDate(before[i])
  /\ \E i \in DOMAIN before : ~SameBundle(file.bundles[i], before[i])

\* the parenthesized groups of a display name: "(" at i, the next ")" at j, and
\* something between them
Groups(s) ==
  {g \in (DOMAIN s) \X (DOMAIN s) :
     /\ s[g[1]] = "(" /\ s[g[2]] = ")" /\ g[2] > g[1] + 1
     /\ \A h \in (g[1] + 1)..(g[2] - 1) : s[h] # ")"}
GroupText(s, g) == SubSeq(s, g[1] + 1, g[2] - 1)
FirstGroup(s) ==
  IF Groups(s) = {} THEN <<>>
  ELSE GroupText(s, CHOOSE g \in Groups(s) : \A h \in Groups(s) : g[1] <= h[1])
LastGroup(s) ==
  IF Groups(s) = {} THEN <<>>
  ELSE GroupText(s, CHOOSE g \in Groups(s) : \A h \in Groups(s) : g[1] >= h[1])
DateOfFirst(b) == parse_date(FirstGroup(b.display_name))
DateOfLast(b) == parse_date(LastGroup(b.display_name))

\* C8, as claimed: with --sort-by-date the bundles are ordered by the date in the
\* last parenthesized group of their display_name.
C8_Original ==
  Sorted =>
    \A i, j \in DOMAIN file.bundles :
      i < j => DateOfLast(file.bundles[i]) <= DateOfLast(file.bundles[j])

\* C8, amended: with --sort-by-date the sort key of a bundle is the date parsed
\* from the first parenthesized group of its display_name, and the bundles are
\* ordered by it; the key is the minimum date when there is no group or the
\* first group is not a date.
C8_FirstGroupIsKey ==
  /\ \A b \in Range(Bundles) : bundle_sort_key(b) = DateOfFirst(b)
  /\ Sorted =>
       \A i, j \in DOMAIN file.bundles :
         i < j => DateOfFirst(file.bundles[i]) <= DateOfFirst(file.bundles[j])

\* C8 witness: a sorted manifest with a bundle whose first group is no date and
\* whose last group is one, ahead of a bundle with an earlier date
C8_Witness ==
  /\ Sorted
  /\ \E i, j \in DOMAIN file.bundles :
       /\ i < j
       /\ DateOfFirst(file.bundles[i]) = DatetimeMin
       /\ DateOfLast(file.bundles[i]) > DateOfFirst(file.bundles[j])
       /\ DateOfFirst(file.bundles[j]) > DatetimeMin

\* a manifest without the index values that --sort-by-date assigns
WithoutSortIndex(manifest) ==
  IF args.sort_by_date
  THEN [manifest EXCEPT !.bundles = [i \in DOMAIN @ |-> [@[i] EXCEPT !.index = NoIndex]]]
  ELSE manifest

\* C4, as claimed: for every manifest, the run over the manifest that a first
\* run with the same descriptors and flags wrote leaves a manifest equal to it,
\* except for the index values that --sort-by-date assigns.
C4_Original ==
  (run = 2 /\ pc = "done") => WithoutSortIndex(file) = WithoutSortIndex(out1)

\* C4, amended: the same, for every manifest with one bundle per ref at most
\* (the first run keeps the refs distinct, so its result is such a manifest too).
C4_Idempotent ==
  (run = 2 /\ pc = "done" /\ UniqueRefs(out1.bundles)) =>
    WithoutSortIndex(file) = WithoutSortIndex(out1)

\* C4 witness: the second run is done, over two descriptors that share a ref no
\* loaded bundle had, the second without some optional fields, and the first run
\* has changed a loaded bundle's model
C4_Witness ==
  /\ run = 2 /\ pc = "done"
  /\ Len(descs) = 2
  /\ descs[1].ref = descs[2].ref
  /\ \A b \in SampleBundles : b.ref # descs[1].ref
  /\ descs[2].keys # AllKeys
  /\ Len(file.bundles) >= 2
  /\ UniqueRefs(out1.bundles)

\* the index a bundle counts with: bundle.get("index", 0)
IndexValue(b) == IF b.index.k = "none" THEN 0 ELSE b.index.v
HasBoth(b) == b.generation # Absent /\ b.minimum_selector_version # Absent
\* the leading letters of a name
Letters(s) ==
  SubSeq(s, 1, CHOOSE n \in 0..Len(s) :
                 /\ \A j \in 1..n : IsAlpha(s[j])
                 /\ (n < Len(s) => ~IsAlpha(s[n + 1])))
NoVersionFlags == args.generation = None /\ args.version = None
NewOne == Bundles[Len(Bundles)]
\* a bundle of S with the highest index gave the new bundle both values
InheritsFromHighest(S) ==
  \E i \in S :
    /\ \A j \in S : IndexValue(before[j]) <= IndexValue(before[i])
    /\ NewOne.generation = before[i].generation
    /\ NewOne.minimum_selector_version = before[i].minimum_selector_version

\* C5, as claimed: a bundle created without --generation and --version has the
\* generation and minimum_selector_version of the highest-index bundle, among the
\* bundles there before it that carry both fields and whose short_name has the
\* leading letters of the descriptor's short_name; both are "12" without one.
C5_Original ==
  (step = "new" /\ NoVersionFlags) =>
    LET S == {i \in DOMAIN before :
                HasBoth(before[i])
                /\ Letters(before[i].short_name) = Letters(ShortName(LastMeta))}
    IN IF S = {} THEN NewOne.generation = "12" /\ NewOne.minimum_selector_version = "12"
       ELSE InheritsFromHighest(S)

\* C5, amended: the source is the highest-index bundle (the first of them in the
\* manifest, a bundle without index counting as 0) among the bundles there before
\* the new one that carry both fields and whose short_name starts with the
\* leading letters of the descriptor's upper-cased short_name, or with that whole
\* name when it starts with no letter; both are "12" without one.
C5_InheritsByStartsWith ==
  (step = "new" /\ NoVersionFlags) =>
    LET name == ShortName(LastMeta)
        p == IF Letters(name) = <<>> THEN name ELSE Letters(name)
        S == {i \in DOMAIN before : HasBoth(before[i]) /\ StartsWith(before[i].short_name, p)}
    IN /\ Len(Bundles) = Len(before) + 1
       /\ IF S = {} THEN NewOne.generation = "12" /\ NewOne.minimum_selector_version = "12"
          ELSE /\ InheritsFromHighest(S)
               /\ \A i \in S :
                    (\A j \in S : /\ IndexValue(before[j]) <= IndexValue(before[i])
                                  /\ j < i => IndexValue(before[j]) < IndexValue(before[i])) =>
                      /\ NewOne.generation = before[i].generation
                      /\ NewOne.minimum_selector_version = before[i].minimum_selector_version

\* C5 witness: a bundle was created without the flags, from a manifest with two
\* bundles that carry both fields and start with its letters, the one with the
\* higher index having more leading letters
C5_Witness ==
  /\ step = "new" /\ NoVersionFlags
  /\ \E i, j \in DOMAIN before :
       /\ HasBoth(before[i]) /\ HasBoth(before[j])
       /\ StartsWith(before[i].short_name, Letters(ShortName(LastMeta)))
       /\ Letters(before[j].short_name) = Letters(ShortName(LastMeta))
       /\ Letters(before[i].short_name) # Letters(ShortName(LastMeta))
       /\ IndexValue(before[i]) > IndexValue(before[j])
       /\ before[i].generation # before[j].generation

IntegerIndices(bundles) ==
  {bundles[i].index.v : i \in {j \in DOMAIN bundles : bundles[j].index.k = "int"}}
DistinctIntegers(bundles) ==
  /\ \A i \in DOMAIN bundles : bundles[i].index.k = "int"
  /\ \A i, j \in DOMAIN bundles : bundles[i].index = bundles[j].index => i = j
\* what a run without --sort-by-date leaves of the indices
IndicesKept ==
  /\ Merged => \A i \in DOMAIN before : Bundles[i].index = before[i].index
  /\ (pc = "done" /\ ~args.sort_by_date) =>
       /\ \A i \in DOMAIN loaded.bundles : file.bundles[i].index = loaded.bundles[i].index
       /\ DistinctIntegers(loaded.bundles) =>
            /\ DistinctIntegers(file.bundles)
            /\ \A i, j \in DOMAIN file.bundles :
                 (Len(loaded.bundles) < i /\ i < j) =>
                   file.bundles[i].index.v < file.bundles[j].index.v

\* C9, as claimed: without --sort-by-date the loaded bundles keep their index and
\* a new bundle gets 1 + the maximum integer index of the bundles there at its
\* creation, 1 when none has one; distinct integer indices stay distinct and the
\* new ones increase.
C9_Original ==
  /\ step = "new" =>
       LET ints == IntegerIndices(before)
       IN \/ ints = {} /\ NewOne.index = IntIndex(1)
          \/ \E m \in ints : (\A x \in ints : x <= m) /\ NewOne.index = IntIndex(m + 1)
  /\ IndicesKept

\* C9, amended: the same, the maximum being taken over the integer indices and a
\* 0 for each bundle without an index; it is 0 when there is neither.
C9_IndexAssigned ==
  /\ step = "new" =>
       LET ints == IntegerIndices(before)
                     \cup {0 : i \in {j \in DOMAIN before : before[j].index.k = "none"}}
       IN \/ ints = {} /\ NewOne.index = IntIndex(1)
          \/ \E m \in ints : (\A x \in ints : x <= m) /\ NewOne.index = IntIndex(m + 1)
  /\ IndicesKept

\* C9 witness: a run without --sort-by-date is done that loaded bundles with
\* distinct integer indices and created two bundles
C9_Witness ==
  /\ pc = "done" /\ ~args.sort_by_date
  /\ Len(loaded.bundles) >= 1
  /\ DistinctIntegers(loaded.bundles)
  /\ Len(file.bundles) >= Len(loaded.bundles) + 2

\* ---------------------------------------------------------- specifications
\* Each specification draws the manifest, the descriptors and the flags from the
\* samples that show the cases of its claims.

\* "big" models, models of one type (C1, C10)
InitModels ==
  InitWith({Br1, Br2, Br3}, {Dr1, Dr9a, Dr9b, DnoRef}, {ArgsDefault, ArgsAll})
SpecModels == InitModels /\ [][Next]_vars

\* short names, refs and failing descriptors (C2, C6, C7)
InitRefs ==
  InitWith({Br1, Br2, Br3}, {Dr2, Dr9a, Dr9b, DnoModels}, {ArgsDefault, ArgsSortMin})
SpecRefs == InitRefs /\ [][Next]_vars

\* --sort-by-date (C3)
InitSort ==
  InitWith({Br1, Br2, Br3, Br6}, {Dr1, Dr9a, DnoRef}, {ArgsSort, ArgsSortMin})
SpecSort == InitSort /\ [][Next]_vars

\* the parenthesized group that gives the date (C8)
InitGroups ==
  InitWith({Br1, Br2, Br3}, {Dr1, Dr9b, DnoRef}, {ArgsSort, ArgsAll})
SpecGroups == InitGroups /\ [][Next]_vars

\* generation, minimum_selector_version and index of a new bundle (C5, C9)
InitNew ==
  InitWith({Br1, Br3, Br4, Br5, Br6}, {Dr9a, Dr8, Dr1}, {ArgsDefault, ArgsGeneration})
SpecNew == InitNew /\ [][Next]_vars

\* the run on its own result (C4)
InitTwice ==
  InitWith({Br1, Br2, Br3}, {Dr1, Dr9a, Dr9b, DnoModels}, {ArgsDefault, ArgsAll, ArgsSortMin})
SpecTwice == InitTwice /\ [][Next]_vars

====
